---- MODULE Spec2Model ----
(***************************************************************************)
(* Model of wasm-bindgen's closure support.                                *)
(*                                                                         *)
(*  - crates/cli-support/src/js/closures.rs: the `rewrite` pass over a     *)
(*    wasm module (scanner FindDescribeClosure, ClosureDescriptors::new,   *)
(*    delete_function_table_entries, inject_imports);                      *)
(*  - the JS closure shim that inject_imports emits, run against the       *)
(*    invokers and destructors of src/closure.rs.                          *)
(***************************************************************************)
EXTENDS Integers, Sequences, FiniteSets, TLC

(***************************************************************************)
(* Bounds of the model.                                                    *)
(***************************************************************************)
\* number of closure sites (site functions) of the input module
NumSites == 2
\* number of times `rewrite` is run on the same module
MaxRuns == 2

VARIABLES
  funcs,                  \* module.funcs: arena of functions, FunctionId = index
  table,                  \* the function table: <<>> (no table) or <<elements>>
  exports,                \* JS glue: shims registered through Context::export
  function_table_needed,  \* Context::function_table_needed
  add_heap_object,        \* Context::expose_add_heap_object() was called
  pc,                     \* position of `rewrite`
  element_removal_list,   \* ClosureDescriptors::element_removal_list
  func_to_descriptor,     \* ClosureDescriptors::func_to_descriptor
  scanQueue,              \* local functions iter_local() has yet to yield
  find,                   \* result of FindDescribeClosure on the current function
  delQueue,               \* indices element_removal_list.iter() has yet to yield
  injQueue,               \* keys func_to_descriptor.iter() has yet to yield
  runs,                   \* completed runs of `rewrite`
  pre,                    \* the module and glue as they were when this run began
  \* ---- run time: one closure made by a factory shim ----
  rt,                     \* "off", "running" or "trapped"
  flavor,                 \* the flavor T of the Closure<T>
  shim,                   \* the factory shim the closure was made by
  cb,                     \* the JS callable's properties: cb.a, cb.cnt
  env,                    \* the (a, b) words of the boxed Rust closure
  stack,                  \* the invocations in progress: each one's `const a`
  handle,                 \* the Rust Closure value: "live" or "dropped"
  dropDepth,              \* Some(invocations in progress at the drop), or None
  frees,                  \* who deallocated the environment, in order
  calls,                  \* the invocations so far: what the invoker was passed
  dtors                   \* the calls d(a, b) made by the shim: their a

rwvars == <<funcs, table, exports, function_table_needed, add_heap_object, pc,
            element_removal_list, func_to_descriptor, scanQueue, find,
            delQueue, injQueue, runs, pre>>

rtvars == <<rt, flavor, shim, cb, env, stack, handle, dropDepth, frees, calls,
            dtors>>

vars == <<rwvars, rtvars>>

(***************************************************************************)
(* Option<T>: None is <<>>, Some(x) is <<x>>.                              *)
(***************************************************************************)
None == <<>>
Some(x) == <<x>>

(***************************************************************************)
(* Descriptor words (the descriptor protocol of src/describe.rs, which     *)
(* closure.rs informs through `inform`).                                   *)
(***************************************************************************)
I32 == 4
FUNCTION == 11
CLOSURE == 12
FN == 23
FN_MUT == 24
FN_ONCE == 25
UNKNOWN_TAG == 99

ClosureKinds == {"Fn", "FnMut", "FnOnce"}

KindTag(kind) ==
  CASE kind = "Fn" -> FN
    [] kind = "FnMut" -> FN_MUT
    [] kind = "FnOnce" -> FN_ONCE

(***************************************************************************)
(* Names and types.                                                        *)
(***************************************************************************)
PLACEHOLDER_MODULE == "__wbindgen_placeholder__"
DescribeClosureName == <<"__wbindgen_describe_closure">>
DescribeName == <<"__wbindgen_describe">>
OtherName == <<"__wbindgen_throw">>
\* the placeholder's type: (i32, i32, i32) -> i32
PlaceholderTy == <<<<"i32", "i32", "i32">>, <<"i32">>>>
DescribeTy == <<<<"i32">>, <<>>>>
UnitTy == <<<<>>, <<>>>>

(***************************************************************************)
(* walrus IR: a function body is an arena of expressions, ExprId = index.  *)
(***************************************************************************)
Const(v) == [op |-> "const", func |-> 0, args |-> <<>>, val |-> v]
Call(f, as) == [op |-> "call", func |-> f, args |-> as, val |-> 0]
Block(es) == [op |-> "block", func |-> 0, args |-> es, val |-> 0]

Import(name, ty) ==
  [kind |-> "import", module |-> PLACEHOLDER_MODULE, name |-> name, ty |-> ty,
   body |-> <<>>, entry |-> 0]
Local(ty, body, entry) ==
  [kind |-> "local", module |-> "", name |-> <<>>, ty |-> ty,
   body |-> body, entry |-> entry]


(***************************************************************************)
(* Layout of the input module.  Function ids 1..3 are imports, then one    *)
(* local function per closure site, then one monomorphized descriptor      *)
(* function per site, then an invoker and a destructor.                    *)
(***************************************************************************)
PlaceholderId == 1
DescribeId == 2
OtherId == 3
NumImports == OtherId

SiteId(i) == NumImports + i
DescFnId(i) == NumImports + NumSites + i
InvokeFnId == NumImports + 2 * NumSites + 1
DestroyFnId == NumImports + 2 * NumSites + 2

\* function table slots: one per descriptor function, the invoker, the
\* destructor and one empty slot
DescSlot(i) == i
ShimSlot == NumSites + 1
DtorSlot == NumSites + 2
EmptySlot == NumSites + 3

InitTable ==
  [s \in 1..EmptySlot |->
     IF s <= NumSites THEN Some(DescFnId(s))
     ELSE IF s = ShimSlot THEN Some(InvokeFnId)
     ELSE IF s = DtorSlot THEN Some(DestroyFnId)
     ELSE None]

(***************************************************************************)
(* Bodies of the site functions (Closure::wrap's breaks_if_inlined and     *)
(* variations of it).  Expression 1 is the entry block.                    *)
(***************************************************************************)
NoCallBody == <<Block(<<2>>), Const(0)>>
OtherCallBody == <<Block(<<3>>), Const(0), Call(OtherId, <<2>>)>>
\* __wbindgen_describe_closure(a, b, describe::<T> as u32)
PlainBody(idx) ==
  <<Block(<<5>>), Const(0), Const(0), Const(idx),
    Call(PlaceholderId, <<2, 3, 4>>)>>
\* the describe call inside an inner block, as the argument of another call
NestedBody(idx) ==
  <<Block(<<6>>), Const(0), Const(0), Const(idx),
    Call(PlaceholderId, <<2, 3, 4>>), Block(<<7>>), Call(OtherId, <<5>>)>>
\* the describe call's first argument is itself a call
ArgCallBody(idx) ==
  <<Block(<<5>>), Call(OtherId, <<6>>), Const(0), Const(idx),
    Call(PlaceholderId, <<2, 3, 4>>), Const(0)>>
\* two describe calls in sequence
TwoCallsBody(idx) ==
  <<Block(<<5, 6>>), Const(0), Const(0), Const(idx),
    Call(PlaceholderId, <<2, 3, 4>>), Call(PlaceholderId, <<2, 3, 4>>)>>
\* a describe call in the argument of a describe call
CallInArgBody(idx) ==
  <<Block(<<6>>), Const(0), Const(0), Const(idx),
    Call(PlaceholderId, <<2, 3, 4>>), Call(PlaceholderId, <<5, 3, 4>>)>>
\* the third argument is not a constant
NonConstBody ==
  <<Block(<<5>>), Const(0), Const(0), Call(OtherId, <<2>>),
    Call(PlaceholderId, <<2, 3, 4>>)>>

(***************************************************************************)
(* Bodies of the descriptor functions: a sequence of inform(word) calls.   *)
(***************************************************************************)
RECURSIVE InformArena(_, _)
InformArena(words, k) ==
  IF words = <<>> THEN <<>>
  ELSE <<Const(Head(words)), Call(DescribeId, <<2 * k>>)>>
         \o InformArena(Tail(words), k + 1)

\* expression 1 is the entry block; word k is the constant 2k, informed by
\* the call 2k+1
InformBody(words) ==
  <<Block([k \in 1..Len(words) |-> 2 * k + 1])>> \o InformArena(words, 1)

\* describe::<T>: inform(CLOSURE); T::describe()
ClosureStream(kind) ==
  <<CLOSURE, ShimSlot, DtorSlot, KindTag(kind), FUNCTION, ShimSlot, 0, I32>>
UnknownTagStream == <<UNKNOWN_TAG>>
NotClosureStream == <<I32>>

Streams ==
  {ClosureStream(k) : k \in ClosureKinds} \cup {UnknownTagStream, NotClosureStream}

(***************************************************************************)
(* One closure site of the input: the body of the site function and the    *)
(* word stream of its descriptor function.                                 *)
(***************************************************************************)
Scenarios(i) ==
  {[body |-> PlainBody(DescSlot(i)), words |-> w] : w \in Streams}
  \cup {[body |-> b, words |-> ClosureStream("FnMut")] :
          b \in {NoCallBody, OtherCallBody, NestedBody(DescSlot(i)),
                 ArgCallBody(DescSlot(i)), TwoCallsBody(DescSlot(i)),
                 CallInArgBody(DescSlot(i)), NonConstBody,
                 PlainBody(EmptySlot), PlainBody(DescSlot(1))}}

InitFuncs(hasPlaceholder, sc) ==
  <<Import(IF hasPlaceholder THEN DescribeClosureName ELSE OtherName,
           PlaceholderTy),
    Import(DescribeName, DescribeTy),
    Import(OtherName, DescribeTy)>>
  \o [i \in 1..NumSites |-> Local(PlaceholderTy, sc[i].body, 1)]
  \o [i \in 1..NumSites |-> Local(UnitTy, InformBody(sc[i].words), 1)]
  \o <<Local(PlaceholderTy, NoCallBody, 1), Local(DescribeTy, NoCallBody, 1)>>


(***************************************************************************)
(* Helpers.                                                                *)
(***************************************************************************)
Min(S) == CHOOSE x \in S : \A y \in S : x <= y

RECURSIVE SortedSeq(_)
SortedSeq(S) ==
  IF S = {} THEN <<>> ELSE <<Min(S)>> \o SortedSeq(S \ {Min(S)})

\* module.funcs.iter_local(): the local functions, in id order
iter_local(fs) == SortedSeq({i \in DOMAIN fs : fs[i].kind = "local"})

(***************************************************************************)
(* The wasm interpreter's view of the module.                              *)
(***************************************************************************)
\* interpreter.describe_closure_id(): the placeholder import, if imported
describe_closure_id(fs) ==
  LET S == {i \in DOMAIN fs : /\ fs[i].kind = "import"
                              /\ fs[i].module = PLACEHOLDER_MODULE
                              /\ fs[i].name = DescribeClosureName}
  IN IF S = {} THEN None ELSE Some(Min(S))

\* the words a descriptor function informs, in order
RECURSIVE InformedWords(_, _)
InformedWords(body, ids) ==
  IF ids = <<>> THEN <<>>
  ELSE LET e == body[Head(ids)]
       IN (IF e.op = "call" /\ e.func = DescribeId
             THEN <<body[e.args[1]].val>> ELSE <<>>)
          \o InformedWords(body, Tail(ids))

\* interpreter.interpret_closure_descriptor(id, module, &mut removal_list):
\* the third argument of the describe-closure call names a table slot; the
\* slot is recorded for removal and the function in it is executed.
interpret_closure_descriptor(fs, tbl, id, dc) ==
  LET body == fs[id].body
      cs == {e \in DOMAIN body : body[e].op = "call" /\ body[e].func = dc}
      c == Min(cs)
      third == body[body[c].args[3]]
      fail == [ok |-> FALSE, idx |-> 0, words |-> <<>>]
  IN IF cs = {} \/ third.op # "const" THEN fail
     ELSE IF tbl = None THEN fail
     ELSE IF third.val \notin DOMAIN tbl[1] THEN fail
     ELSE IF tbl[1][third.val] = None THEN fail
     ELSE LET d == fs[tbl[1][third.val][1]]
          IN [ok |-> TRUE, idx |-> third.val,
              words |-> InformedWords(d.body, d.body[d.entry].args)]

\* Descriptor::decode
NoClosure == [shim_idx |-> 0, dtor_idx |-> 0, kind |-> "", function |-> <<>>]

decode(words) ==
  IF words = <<>> THEN [ok |-> FALSE, tag |-> "", closure |-> NoClosure]
  ELSE IF words[1] = I32 /\ Len(words) = 1
    THEN [ok |-> TRUE, tag |-> "I32", closure |-> NoClosure]
  ELSE IF /\ words[1] = CLOSURE
          /\ Len(words) = 8
          /\ words[4] \in {FN, FN_MUT, FN_ONCE}
          /\ words[5] = FUNCTION
    THEN [ok |-> TRUE, tag |-> "Closure",
          closure |-> [shim_idx |-> words[2], dtor_idx |-> words[3],
                       kind |-> CASE words[4] = FN -> "Fn"
                                  [] words[4] = FN_MUT -> "FnMut"
                                  [] words[4] = FN_ONCE -> "FnOnce",
                       function |-> SubSeq(words, 6, 8)]]
  ELSE [ok |-> FALSE, tag |-> "", closure |-> NoClosure]

(***************************************************************************)
(* The scanner: FindDescribeClosure, a walrus Visitor with a cursor.       *)
(***************************************************************************)
RECURSIVE visit_expr_id(_, _, _, _)
RECURSIVE visit_children(_, _, _, _)

\* the default Visit of a node: its children, in order
visit_children(body, dc, st, ids) ==
  IF ids = <<>> THEN st
  ELSE visit_children(body, dc, visit_expr_id(body, dc, st, Head(ids)),
                      Tail(ids))

\* visit_call without `assert!(self.call.is_none())`: the last call wins
visit_call_no_assert(body, dc, st, call) ==
  LET st1 == visit_children(body, dc, st, call.args)
  IN IF call.func = dc THEN [st1 EXCEPT !.call = Some(st1.cur)] ELSE st1

visit_call(body, dc, st, call) ==
  LET st1 == visit_children(body, dc, st, call.args)
  IN IF call.func = dc
       THEN IF st1.call # None
              THEN [st1 EXCEPT !.failed = TRUE]
              ELSE [st1 EXCEPT !.call = Some(st1.cur)]
       ELSE st1

\* visit_expr_id that leaves the cursor where the descent put it
visit_expr_id_no_restore(body, dc, st, id) ==
  LET st1 == [st EXCEPT !.cur = id]
      e == body[id]
  IN CASE e.op = "call" -> visit_call(body, dc, st1, e)
       [] e.op = "block" -> visit_children(body, dc, st1, e.args)
       [] OTHER -> st1

visit_expr_id(body, dc, st, id) ==
  LET prev == st.cur
      st1 == [st EXCEPT !.cur = id]
      e == body[id]
      st2 == CASE e.op = "call" -> visit_call(body, dc, st1, e)
               [] e.op = "block" -> visit_children(body, dc, st1, e.args)
               [] OTHER -> st1
  IN [st2 EXCEPT !.cur = prev]

\* FindDescribeClosure { cur: entry, call: None }.visit_block_id(&entry)
FindDescribeClosure(local, dc) ==
  visit_children(local.body, dc,
                 [cur |-> local.entry, call |-> None, failed |-> FALSE],
                 local.body[local.entry].args)

(***************************************************************************)
(* The JS that inject_imports generates.                                   *)
(***************************************************************************)
\* a name that leaves the function's index out
import_name_no_index(func) == <<"__wbindgen_closure_wrapper", 0>>

import_name(func) == <<"__wbindgen_closure_wrapper", func>>

\* a prelude that never zeroes this.a
ShimPrelude_no_zero(kind) == <<"this.cnt++;", "const a = this.a;">>

\* a finally block that restores this.a for FnOnce as well
ShimFinally_restores_once(kind) ==
  (IF kind = "FnMut" \/ kind = "FnOnce" THEN <<"this.a = a;">> ELSE <<>>)
  \o (IF kind # "FnOnce" THEN <<"if (this.cnt-- == 1) d(a, b);">> ELSE <<>>)

\* a prelude that takes the environment word for every flavour
ShimPrelude_takes_always(kind) ==
  <<"this.cnt++;", "const a = this.a;", "this.a = 0;">>

\* the prelude and finally statements handed to the Js2Rust builder
ShimPrelude(kind) ==
  <<"this.cnt++;", "const a = this.a;">>
  \o (IF kind = "FnMut" \/ kind = "FnOnce" THEN <<"this.a = 0;">> ELSE <<>>)

\* a finally block whose reference count never reaches the destructor
ShimFinally_no_dtor(kind) ==
  IF kind = "FnMut" THEN <<"this.a = a;">> ELSE <<>>

ShimFinally(kind) ==
  (IF (kind = "FnMut" \/ kind = "FnOnce") /\ kind = "FnMut"
     THEN <<"this.a = a;">> ELSE <<>>)
  \o (IF kind # "FnOnce" THEN <<"if (this.cnt-- == 1) d(a, b);">> ELSE <<>>)

\* function(a, b, _ignored) { const f = table.get(shim_idx); ... }
FactoryShim(closure) ==
  [f |-> closure.shim_idx, d |-> closure.dtor_idx,
   prelude |-> ShimPrelude(closure.kind),
   finally |-> ShimFinally(closure.kind),
   function |-> closure.function,
   cb_a |-> "a", cb_cnt |-> 1]


(***************************************************************************)
(* The initial states: the module handed to `rewrite`.                     *)
(***************************************************************************)
Snapshot ==
  [funcs |-> funcs, table |-> table, exports |-> exports,
   function_table_needed |-> function_table_needed,
   add_heap_object |-> add_heap_object]

\* the choices of one scenario for each of the first n sites
RECURSIVE SiteChoices(_)
SiteChoices(n) ==
  IF n = 0 THEN {<<>>}
  ELSE {Append(sc, x) : sc \in SiteChoices(n - 1), x \in Scenarios(n)}

Init ==
  \E hasPlaceholder \in BOOLEAN, hasTable \in BOOLEAN :
    \E sc \in SiteChoices(NumSites) :
      /\ funcs = InitFuncs(hasPlaceholder, sc)
      /\ table = IF hasTable THEN Some(InitTable) ELSE None
      /\ exports = <<>>
      /\ function_table_needed = FALSE
      /\ add_heap_object = FALSE
      /\ pc = "idle"
      /\ element_removal_list = {}
      /\ func_to_descriptor = <<>>
      /\ scanQueue = <<>>
      /\ find = None
      /\ delQueue = {}
      /\ injQueue = <<>>
      /\ runs = 0
      /\ pre = Snapshot
      /\ rt = "off"
      /\ flavor = ""
      /\ shim = None
      /\ cb = [a |-> 0, cnt |-> 0]
      /\ env = [a |-> 0, b |-> 0]
      /\ stack = <<>>
      /\ handle = "live"
      /\ dropDepth = None
      /\ frees = <<>>
      /\ calls = <<>>
      /\ dtors = <<>>

(***************************************************************************)
(* rewrite, step by step.                                                  *)
(***************************************************************************)
\* Begin with the absence of the placeholder treated as a failure
Begin_absence_fails ==
  /\ pc \in {"idle", "done"}
  /\ runs < MaxRuns
  /\ pre' = Snapshot
  /\ element_removal_list' = {}
  /\ func_to_descriptor' = <<>>
  /\ find' = None
  /\ delQueue' = {}
  /\ injQueue' = <<>>
  /\ IF describe_closure_id(funcs) = None
       THEN pc' = "panicked" /\ scanQueue' = <<>>
       ELSE pc' = "scan" /\ scanQueue' = iter_local(funcs)
  /\ UNCHANGED <<funcs, table, exports, function_table_needed,
                 add_heap_object, runs>>
  /\ UNCHANGED rtvars

\* rewrite is entered; ClosureDescriptors::new looks the placeholder up
Begin ==
  /\ pc \in {"idle", "done"}
  /\ runs < MaxRuns
  /\ pre' = Snapshot
  /\ element_removal_list' = {}
  /\ func_to_descriptor' = <<>>
  /\ find' = None
  /\ delQueue' = {}
  /\ injQueue' = <<>>
  /\ IF describe_closure_id(funcs) = None
       THEN pc' = "check" /\ scanQueue' = <<>>
       ELSE pc' = "scan" /\ scanQueue' = iter_local(funcs)
  /\ UNCHANGED <<funcs, table, exports, function_table_needed,
                 add_heap_object, runs>>
  /\ UNCHANGED rtvars

\* ScanFunction going on to the next function without interpreting a hit
ScanFunction_defers ==
  /\ pc = "scan"
  /\ scanQueue # <<>>
  /\ LET id == Head(scanQueue)
         r == FindDescribeClosure(funcs[id], describe_closure_id(funcs)[1])
     IN IF r.failed
          THEN pc' = "panicked" /\ UNCHANGED <<scanQueue, find>>
          ELSE /\ pc' = "scan"
               /\ scanQueue' = Tail(scanQueue)
               /\ find' = None
  /\ UNCHANGED <<funcs, table, exports, function_table_needed,
                 add_heap_object, element_removal_list, func_to_descriptor,
                 delQueue, injQueue, runs, pre>>
  /\ UNCHANGED rtvars

\* one iteration of the loop of new: the visitor runs over one function
ScanFunction ==
  /\ pc = "scan"
  /\ scanQueue # <<>>
  /\ LET id == Head(scanQueue)
         r == FindDescribeClosure(funcs[id], describe_closure_id(funcs)[1])
     IN IF r.failed
          THEN pc' = "panicked" /\ UNCHANGED <<scanQueue, find>>
          ELSE IF r.call = None
            THEN /\ pc' = "scan"
                 /\ scanQueue' = Tail(scanQueue)
                 /\ find' = None
            ELSE /\ pc' = "interpret"
                 /\ find' = Some([func |-> id, call |-> r.call[1]])
                 /\ UNCHANGED scanQueue
  /\ UNCHANGED <<funcs, table, exports, function_table_needed,
                 add_heap_object, element_removal_list, func_to_descriptor,
                 delQueue, injQueue, runs, pre>>
  /\ UNCHANGED rtvars

\* Interpret clearing the descriptor's table slot as soon as it is known
Interpret_clears_eagerly ==
  /\ pc = "interpret"
  /\ LET id == find[1].func
         r == interpret_closure_descriptor(funcs, table, id,
                                           describe_closure_id(funcs)[1])
         d == decode(r.words)
     IN IF ~r.ok
          THEN /\ pc' = "panicked"
               /\ UNCHANGED <<element_removal_list, func_to_descriptor,
                              scanQueue, find, table>>
          ELSE /\ element_removal_list' = element_removal_list \cup {r.idx}
               /\ table' = IF table # None /\ r.idx \in DOMAIN table[1]
                             THEN Some([table[1] EXCEPT ![r.idx] = None])
                             ELSE table
               /\ IF ~d.ok
                    THEN /\ pc' = "panicked"
                         /\ UNCHANGED <<func_to_descriptor, scanQueue, find>>
                    ELSE /\ func_to_descriptor' =
                              (id :> [call |-> find[1].call, descriptor |-> d])
                                @@ func_to_descriptor
                         /\ scanQueue' = Tail(scanQueue)
                         /\ find' = None
                         /\ pc' = "scan"
  /\ UNCHANGED <<funcs, exports, function_table_needed,
                 add_heap_object, delQueue, injQueue, runs, pre>>
  /\ UNCHANGED rtvars

\* Interpret putting the decoded shim_idx in the removal set as well
Interpret_removes_shim ==
  /\ pc = "interpret"
  /\ LET id == find[1].func
         r == interpret_closure_descriptor(funcs, table, id,
                                           describe_closure_id(funcs)[1])
         d == decode(r.words)
     IN IF ~r.ok
          THEN /\ pc' = "panicked"
               /\ UNCHANGED <<element_removal_list, func_to_descriptor,
                              scanQueue, find>>
          ELSE IF ~d.ok
            THEN /\ element_removal_list' = element_removal_list \cup {r.idx}
                 /\ pc' = "panicked"
                 /\ UNCHANGED <<func_to_descriptor, scanQueue, find>>
            ELSE /\ element_removal_list' =
                      element_removal_list \cup {r.idx}
                        \cup (IF d.tag = "Closure" THEN {d.closure.shim_idx}
                              ELSE {})
                 /\ func_to_descriptor' =
                      (id :> [call |-> find[1].call, descriptor |-> d])
                        @@ func_to_descriptor
                 /\ scanQueue' = Tail(scanQueue)
                 /\ find' = None
                 /\ pc' = "scan"
  /\ UNCHANGED <<funcs, table, exports, function_table_needed,
                 add_heap_object, delQueue, injQueue, runs, pre>>
  /\ UNCHANGED rtvars

\* `if let Some(call) = find.call`: interpret, decode and record the hit
Interpret ==
  /\ pc = "interpret"
  /\ LET id == find[1].func
         r == interpret_closure_descriptor(funcs, table, id,
                                           describe_closure_id(funcs)[1])
         d == decode(r.words)
     IN IF ~r.ok
          THEN /\ pc' = "panicked"
               /\ UNCHANGED <<element_removal_list, func_to_descriptor,
                              scanQueue, find>>
          ELSE /\ element_removal_list' = element_removal_list \cup {r.idx}
               /\ IF ~d.ok
                    THEN /\ pc' = "panicked"
                         /\ UNCHANGED <<func_to_descriptor, scanQueue, find>>
                    ELSE /\ func_to_descriptor' =
                              (id :> [call |-> find[1].call, descriptor |-> d])
                                @@ func_to_descriptor
                         /\ scanQueue' = Tail(scanQueue)
                         /\ find' = None
                         /\ pc' = "scan"
  /\ UNCHANGED <<funcs, table, exports, function_table_needed,
                 add_heap_object, delQueue, injQueue, runs, pre>>
  /\ UNCHANGED rtvars

\* the loop of new is over: `return ret`
NewReturn ==
  /\ pc = "scan"
  /\ scanQueue = <<>>
  /\ pc' = "check"
  /\ UNCHANGED <<funcs, table, exports, function_table_needed,
                 add_heap_object, element_removal_list, func_to_descriptor,
                 scanQueue, find, delQueue, injQueue, runs, pre>>
  /\ UNCHANGED rtvars

\* CheckEmpty with inject_imports called before
\* delete_function_table_entries, which is then never reached
CheckEmpty_splices_first ==
  /\ pc = "check"
  /\ IF Cardinality(element_removal_list) = 0
       THEN pc' = "done" /\ runs' = runs + 1 /\ UNCHANGED injQueue
       ELSE /\ pc' = "inject"
            /\ injQueue' = SortedSeq(DOMAIN func_to_descriptor)
            /\ UNCHANGED runs
  /\ UNCHANGED <<funcs, table, exports, function_table_needed,
                 add_heap_object, element_removal_list, func_to_descriptor,
                 scanQueue, find, delQueue, pre>>
  /\ UNCHANGED rtvars

\* `if info.element_removal_list.len() == 0 { return Ok(()) }`
CheckEmpty ==
  /\ pc = "check"
  /\ IF Cardinality(element_removal_list) = 0
       THEN pc' = "done" /\ runs' = runs + 1 /\ UNCHANGED delQueue
       ELSE pc' = "delete" /\ delQueue' = element_removal_list
                           /\ UNCHANGED runs
  /\ UNCHANGED <<funcs, table, exports, function_table_needed,
                 add_heap_object, element_removal_list, func_to_descriptor,
                 scanQueue, find, injQueue, pre>>
  /\ UNCHANGED rtvars

\* the table with slot idx removed and the later slots renumbered
ClearSlot_shifts(elements, idx) ==
  SubSeq(elements, 1, idx - 1) \o SubSeq(elements, idx + 1, Len(elements))

\* the table with slot idx cleared
ClearSlot(elements, idx) == [elements EXCEPT ![idx] = None]

\* one iteration of the loop of delete_function_table_entries
DeleteEntry ==
  /\ pc = "delete"
  /\ table # None
  /\ \E idx \in delQueue :
       IF idx \notin DOMAIN table[1] \/ table[1][idx] = None
         THEN pc' = "panicked" /\ UNCHANGED <<table, delQueue>>
         ELSE /\ table' = Some(ClearSlot(table[1], idx))
              /\ delQueue' = delQueue \ {idx}
              /\ pc' = "delete"
  /\ UNCHANGED <<funcs, exports, function_table_needed, add_heap_object,
                 element_removal_list, func_to_descriptor, scanQueue, find,
                 injQueue, runs, pre>>
  /\ UNCHANGED rtvars

\* delete_function_table_entries returns (no table, or the loop is over)
\* and inject_imports is entered
DeleteReturn ==
  /\ pc = "delete"
  /\ table = None \/ delQueue = {}
  /\ IF describe_closure_id(funcs) = None
       THEN pc' = "done" /\ runs' = runs + 1 /\ UNCHANGED injQueue
       ELSE /\ pc' = "inject"
            /\ injQueue' = SortedSeq(DOMAIN func_to_descriptor)
            /\ UNCHANGED runs
  /\ UNCHANGED <<funcs, table, exports, function_table_needed,
                 add_heap_object, element_removal_list, func_to_descriptor,
                 scanQueue, find, delQueue, pre>>
  /\ UNCHANGED rtvars

\* an import added with the type of __wbindgen_describe
add_import_func_other_ty(fs, name, ty) == Append(fs, Import(name, DescribeTy))

\* module.add_import_func(module, name, ty): the new function's id
add_import_func(fs, name, ty) == Append(fs, Import(name, ty))

\* the call expression is left as it was
Retarget_skipped(fs, func, call, id) == fs

\* the call expression is replaced by a fresh call without arguments
Retarget_drops_args(fs, func, call, id) ==
  [fs EXCEPT ![func].body[call] = Call(id, <<>>)]

\* `e.func = id` on the call expression instr.call of function func
Retarget(fs, func, call, id) ==
  [fs EXCEPT ![func].body[call].func = id]

\* one iteration of the loop of inject_imports
InjectImport ==
  /\ pc = "inject"
  /\ injQueue # <<>>
  /\ LET func == Head(injQueue)
         instr == func_to_descriptor[func]
         dc == describe_closure_id(funcs)[1]
         ty == funcs[dc].ty
         id == Len(funcs) + 1
         e == funcs[func].body[instr.call]
     IN IF instr.descriptor.tag # "Closure"
          THEN \* descriptor.closure().unwrap()
               /\ pc' = "panicked"
               /\ UNCHANGED <<funcs, exports, function_table_needed,
                              add_heap_object, injQueue>>
          ELSE /\ add_heap_object' = TRUE
               /\ function_table_needed' = TRUE
               /\ exports' = Append(exports,
                                    [name |-> import_name(func),
                                     body |-> FactoryShim(instr.descriptor.closure)])
               /\ IF e.op # "call" \/ e.func # dc
                    THEN \* unreachable!() / assert_eq!
                         /\ pc' = "panicked"
                         /\ funcs' = add_import_func(funcs, import_name(func), ty)
                         /\ UNCHANGED injQueue
                    ELSE /\ funcs' = Retarget(
                                add_import_func(funcs, import_name(func), ty),
                                func, instr.call, id)
                         /\ injQueue' = Tail(injQueue)
                         /\ pc' = "inject"
  /\ UNCHANGED <<table, element_removal_list, func_to_descriptor, scanQueue,
                 find, delQueue, runs, pre>>
  /\ UNCHANGED rtvars

\* inject_imports and rewrite return Ok(())
InjectReturn ==
  /\ pc = "inject"
  /\ injQueue = <<>>
  /\ pc' = "done"
  /\ runs' = runs + 1
  /\ UNCHANGED <<funcs, table, exports, function_table_needed,
                 add_heap_object, element_removal_list, func_to_descriptor,
                 scanQueue, find, delQueue, injQueue, pre>>
  /\ UNCHANGED rtvars

Next ==
  \/ Begin
  \/ ScanFunction
  \/ Interpret
  \/ NewReturn
  \/ CheckEmpty
  \/ DeleteEntry
  \/ DeleteReturn
  \/ InjectImport
  \/ InjectReturn

Spec == Init /\ [][Next]_vars


(***************************************************************************)
(* Run time.  The rewritten call has run the factory shim once: `cb` is    *)
(* the callable it made (cb.a = a; cb.cnt = 1), bound to itself and handed *)
(* to JS, and the Rust side holds the Closure<T>.  JS is single threaded:  *)
(* an invocation is entered (prelude, then the invoker), the Rust closure  *)
(* body runs and may invoke the callable again or drop the Closure, and    *)
(* the invocation returns or throws through the shim's finally block.      *)
(***************************************************************************)
\* number of invocations of the callable in one behaviour
MaxCalls == 3

\* the environment words a Closure may carry: non-null pointers
EnvPtrs == {1, 2}

\* one statement of the shim's prelude or finally block, on the callable's
\* properties c, the invocation's `const a` and the calls of d made so far
ExecStmt(st, stmt) ==
  CASE stmt = "this.cnt++;" -> [st EXCEPT !.cb.cnt = @ + 1]
    [] stmt = "const a = this.a;" -> [st EXCEPT !.a = st.cb.a]
    [] stmt = "this.a = 0;" -> [st EXCEPT !.cb.a = 0]
    [] stmt = "this.a = a;" -> [st EXCEPT !.cb.a = st.a]
    [] stmt = "if (this.cnt-- == 1) d(a, b);" ->
         [st EXCEPT !.cb.cnt = @ - 1,
                    !.d = IF st.cb.cnt = 1 THEN Append(@, st.a) ELSE @]

RECURSIVE ExecStmts(_, _)
ExecStmts(st, stmts) ==
  IF stmts = <<>> THEN st
  ELSE ExecStmts(ExecStmt(st, Head(stmts)), Tail(stmts))

\* the prelude of the inner callable, run on entry
RunPrelude(sh, c) == ExecStmts([cb |-> c, a |-> 0, d |-> <<>>], sh.prelude)

\* the finally block of the inner callable, run on return and on throw
RunFinally(sh, c, a) == ExecStmts([cb |-> c, a |-> a, d |-> <<>>], sh.finally)

\* `if a == 0 { throw_str(..) }` at the head of every invoker
InvokerThrows(a) == a = 0

\* the FnOnce invoker transmutes (a, b) into the Box and consumes it
InvokerConsumes(k) == k = "FnOnce"

\* destroy(a, b), called for each a of ds: `debug_assert!(a != 0)`, then
\* the Box is rebuilt from (a, b) and dropped
destroy(ds, fr) ==
  [frees |-> fr \o [i \in 1..Cardinality({j \in DOMAIN ds : ds[j] # 0})
                      |-> "destroy"],
   fault |-> \E j \in DOMAIN ds : (ds[j] = 0 \/ fr # <<>>)]

\* __wbindgen_cb_drop(idx): `if (obj.cnt-- == 1) { obj.a = 0; return 1; }`
cb_drop(c) ==
  [cb |-> [cnt |-> c.cnt - 1, a |-> IF c.cnt = 1 THEN 0 ELSE c.a],
   ret |-> IF c.cnt = 1 THEN 1 ELSE 0]

\* what a step that ran into undefined behaviour or a failed assertion
\* leaves behind: the instance traps, or the step goes on
AfterFault(fault, outcome) ==
  IF fault /\ outcome = "trap" THEN "trapped" ELSE "running"

Outcomes == {"go", "trap"}

ShimInit ==
  /\ funcs = <<>>
  /\ table = None
  /\ exports = <<>>
  /\ function_table_needed = TRUE
  /\ add_heap_object = TRUE
  /\ pc = "off"
  /\ element_removal_list = {}
  /\ func_to_descriptor = <<>>
  /\ scanQueue = <<>>
  /\ find = None
  /\ delQueue = {}
  /\ injQueue = <<>>
  /\ runs = 0
  /\ pre = <<>>
  /\ rt = "running"
  /\ flavor \in ClosureKinds
  /\ shim = Some(FactoryShim(decode(ClosureStream(flavor)).closure))
  /\ env \in [a : EnvPtrs, b : EnvPtrs]
  /\ cb = [a |-> env.a, cnt |-> 1]
  /\ stack = <<>>
  /\ handle = "live"
  /\ dropDepth = None
  /\ frees = <<>>
  /\ calls = <<>>
  /\ dtors = <<>>

\* JS calls the bound callable: prelude, then the invoker with (a, b, ..);
\* with a == 0 the invoker throws at once and the finally block runs
Invoke ==
  /\ rt = "running"
  /\ Len(calls) < MaxCalls
  /\ \E outcome \in Outcomes :
       LET p == RunPrelude(shim[1], cb)
           q == RunFinally(shim[1], p.cb, p.a)
           dd == destroy(q.d, frees)
           uaf == frees # <<>>
       IN /\ calls' = Append(calls, [a |-> p.a, nested |-> stack # <<>>,
                                     dropped |-> handle = "dropped",
                                     freed |-> frees # <<>>])
          /\ IF InvokerThrows(p.a)
               THEN /\ outcome = "go" \/ dd.fault
                    /\ cb' = q.cb
                    /\ dtors' = dtors \o q.d
                    /\ frees' = dd.frees
                    /\ rt' = AfterFault(dd.fault, outcome)
                    /\ UNCHANGED stack
               ELSE /\ outcome = "go" \/ uaf
                    /\ cb' = p.cb
                    /\ stack' = Append(stack, p.a)
                    /\ rt' = AfterFault(uaf, outcome)
                    /\ UNCHANGED <<dtors, frees>>
  /\ UNCHANGED <<flavor, shim, env, handle, dropDepth>>
  /\ UNCHANGED rwvars

\* the innermost invocation in progress returns (or its body throws): the
\* invoker is left and the finally block runs
Return ==
  /\ rt = "running"
  /\ stack # <<>>
  /\ \E outcome \in Outcomes :
       LET a == stack[Len(stack)]
           consumed == IF InvokerConsumes(flavor) THEN <<"invoke">> ELSE <<>>
           twice == consumed # <<>> /\ frees # <<>>
           q == RunFinally(shim[1], cb, a)
           dd == destroy(q.d, frees \o consumed)
       IN /\ outcome = "go" \/ dd.fault \/ twice
          /\ stack' = SubSeq(stack, 1, Len(stack) - 1)
          /\ cb' = q.cb
          /\ dtors' = dtors \o q.d
          /\ frees' = dd.frees
          /\ rt' = AfterFault(dd.fault \/ twice, outcome)
  /\ UNCHANGED <<flavor, shim, env, handle, dropDepth, calls>>
  /\ UNCHANGED rwvars

\* Rust drops the Closure, from outside or from inside an invocation:
\* `if __wbindgen_cb_drop(self.js.idx) != 0 { ManuallyDrop::drop(&mut self.data) }`
Drop ==
  /\ rt = "running"
  /\ handle = "live"
  /\ \E outcome \in Outcomes :
       LET r == cb_drop(cb)
           twice == r.ret # 0 /\ frees # <<>>
       IN /\ outcome = "go" \/ twice
          /\ cb' = r.cb
          /\ frees' = IF r.ret # 0 THEN Append(frees, "drop") ELSE frees
          /\ rt' = AfterFault(twice, outcome)
  /\ handle' = "dropped"
  /\ dropDepth' = Some(Len(stack))
  /\ UNCHANGED <<flavor, shim, env, stack, calls, dtors>>
  /\ UNCHANGED rwvars

ShimNext ==
  \/ Invoke
  \/ Return
  \/ Drop

ShimSpec == ShimInit /\ [][ShimNext]_vars

(***************************************************************************)
(* Vocabulary of the properties of rewrite.                                *)
(***************************************************************************)
Range(q) == {q[i] : i \in DOMAIN q}

Hits == DOMAIN func_to_descriptor

LocalIds(fs) == {i \in DOMAIN fs : fs[i].kind = "local"}

\* the call expressions of function f that target function g
CallsTo(fs, f, g) ==
  {e \in DOMAIN fs[f].body : fs[f].body[e].op = "call" /\ fs[f].body[e].func = g}

\* the call expressions of function f that target the placeholder import
PlaceholderCalls(fs, f) ==
  IF describe_closure_id(fs) = None THEN {}
  ELSE CallsTo(fs, f, describe_closure_id(fs)[1])

NoPlaceholderCalls(fs) == \A f \in LocalIds(fs) : PlaceholderCalls(fs, f) = {}

\* the functions this run has added to the module
NewFuncs == (DOMAIN funcs) \ (DOMAIN pre.funcs)

\* the shims this run has exported
NewExports == {exports[k].name : k \in (DOMAIN exports) \ (DOMAIN pre.exports)}

\* hit f has been spliced: its call targets an import added by this run
Spliced(f) ==
  /\ f \in Hits
  /\ funcs[f].body[func_to_descriptor[f].call].func \in NewFuncs

Succeeded == pc = "done" /\ runs >= 1

\* rewrite has been run again on the output of a successful run
Rerun == runs >= 2 \/ (runs >= 1 /\ pc # "done")

\* C1: after a successful rewrite no call expression of a local function
\* targets the placeholder; a run of rewrite on the output of a successful
\* run finds no hit and changes nothing; every hit is spliced or none is,
\* and rewrite returns early only with an empty hit set.
C1_Idempotent ==
  /\ Succeeded => NoPlaceholderCalls(funcs)
  /\ Rerun =>
       /\ Hits = {}
       /\ element_removal_list = {}
       /\ Snapshot = pre
       /\ pc \in {"done", "scan", "check"}
  /\ Succeeded => (\A f \in Hits : Spliced(f))
  /\ pc = "check" => (element_removal_list = {} <=> Hits = {})

C1_Witness ==
  /\ pc = "done"
  /\ runs >= 2
  /\ Len(exports) >= 2
  /\ \E f \in LocalIds(funcs) : \E g \in (DOMAIN funcs) : 
       g > DestroyFnId /\ CallsTo(funcs, f, g) # {}

\* C2: after a successful rewrite the local functions are those of the
\* input; for every hit (f, e) the expression e of f is still a call with
\* its original arguments and its callee is the import created for f; no
\* other expression and no other function changed.
C2_CallSitePreserved ==
  Succeeded =>
    /\ LocalIds(funcs) = LocalIds(pre.funcs)
    /\ \A f \in DOMAIN pre.funcs : f \notin Hits => funcs[f] = pre.funcs[f]
    /\ \A f \in Hits :
         LET e == func_to_descriptor[f].call
             new == funcs[f].body[e]
             old == pre.funcs[f].body[e]
         IN /\ old.op = "call"
            /\ old.func = describe_closure_id(pre.funcs)[1]
            /\ new.op = "call"
            /\ new.args = old.args
            /\ new.func # old.func
            /\ new.func \in NewFuncs
            /\ funcs[new.func].kind = "import"
            /\ funcs[new.func].name = import_name(f)
            /\ funcs[f] = [pre.funcs[f] EXCEPT !.body[e].func = new.func]

C2_Witness ==
  /\ Succeeded
  /\ \E f \in Hits : \E g \in Hits :
       /\ f # g
       /\ Len(funcs[f].body) > Len(funcs[g].body)


\* C3: after a successful rewrite every index of the removal set holds the
\* empty sentinel, every other slot holds what it held before the pass and
\* the table has its length; every index slated for removal names a slot
\* that was occupied when the pass began, and no slot outside the removal
\* set is ever touched.
C3_TableAccounting ==
  /\ (table = None) <=> (pre.table = None)
  /\ table # None =>
       /\ Len(table[1]) = Len(pre.table[1])
       /\ element_removal_list \subseteq DOMAIN table[1]
       /\ \A i \in DOMAIN table[1] :
            /\ i \notin element_removal_list => table[1][i] = pre.table[1][i]
            /\ i \in element_removal_list => pre.table[1][i] # None
            /\ i \in element_removal_list /\ Succeeded => table[1][i] = None
            /\ table[1][i] \in {None, pre.table[1][i]}
  /\ table = None => element_removal_list = {}

C3_Witness ==
  /\ Succeeded
  /\ Cardinality(element_removal_list) >= 2
  /\ \E i \in DOMAIN table[1] : table[1][i] # None

\* C4 as stated: no table slot is cleared while a hit is still unspliced.
C4_SpliceBeforeClear ==
  table # pre.table => \A f \in Hits : Spliced(f)

\* C4 as amended: every slot of the removal set is cleared before the first
\* splicing mutation (export, import, retargeted call), and no slot is
\* cleared before every function has been scanned and every hit decoded:
\* DISCOVERED, DECODED, TABLE_ENTRIES_CLEARED, SPLICED.
C4_ClearBeforeSplice ==
  /\ (funcs # pre.funcs \/ exports # pre.exports
        \/ function_table_needed # pre.function_table_needed
        \/ add_heap_object # pre.add_heap_object)
       => /\ table # None
          /\ \A idx \in element_removal_list : table[1][idx] = None
          /\ delQueue = {}
  /\ table # pre.table =>
       /\ scanQueue = <<>>
       /\ find = None
       /\ \A f \in LocalIds(pre.funcs) :
            PlaceholderCalls(pre.funcs, f) # {} => f \in Hits
  /\ \A f \in LocalIds(pre.funcs) : Spliced(f) => f \in Hits

C4_Witness ==
  /\ pc = "inject"
  /\ injQueue # <<>>
  /\ Len(exports) > Len(pre.exports)
  /\ table # pre.table

\* C5: the name of a shim is the wrapper prefix with the index of the
\* enclosing function of its hit, so the exported names are pairwise
\* distinct, the new imports carry the same names, and the names are
\* determined by the input module.
C5_UniqueShimNames ==
  /\ \A j \in DOMAIN exports : \A k \in DOMAIN exports :
       j # k => exports[j].name # exports[k].name
  /\ \A g \in NewFuncs : \A h \in NewFuncs :
       g # h => funcs[g].name # funcs[h].name
  /\ \A k \in (DOMAIN exports) \ (DOMAIN pre.exports) :
       /\ k - Len(pre.exports) <= Cardinality(Hits)
       /\ exports[k].name =
            import_name(SortedSeq(Hits)[k - Len(pre.exports)])
  /\ pc \in {"inject", "done"} => {funcs[g].name : g \in NewFuncs} = NewExports

C5_Witness ==
  /\ pc = "inject"
  /\ Len(exports) >= 2
  /\ Cardinality(NewFuncs) >= 2

\* C6: a successful rewrite adds exactly one imported function per hit,
\* in the placeholder namespace, named as the hit's shim and typed as the
\* placeholder import (three words in, one word out); the placeholder
\* import stays in the module.
C6_SignatureFidelity ==
  /\ describe_closure_id(funcs) = describe_closure_id(pre.funcs)
  /\ Succeeded =>
       /\ Len(funcs) = Len(pre.funcs) + Cardinality(Hits)
       /\ \A f \in Hits :
            Cardinality({g \in NewFuncs : funcs[g].name = import_name(f)}) = 1
       /\ \A g \in NewFuncs :
            LET dc == describe_closure_id(pre.funcs)[1]
            IN /\ funcs[g].kind = "import"
               /\ funcs[g].module = PLACEHOLDER_MODULE
               /\ \E f \in Hits : funcs[g].name = import_name(f)
               /\ funcs[g].ty = pre.funcs[dc].ty
               /\ Len(funcs[g].ty[1]) = 3
               /\ Len(funcs[g].ty[2]) = 1
               /\ funcs[dc] = pre.funcs[dc]
               /\ funcs[dc].name = DescribeClosureName

C6_Witness ==
  /\ Succeeded
  /\ Cardinality(NewFuncs) >= 1
  /\ \A g \in NewFuncs : funcs[g].ty = PlaceholderTy

\* C7: when the module does not import the placeholder, rewrite succeeds
\* and nothing changes: no scan, no hit, no removal, no import, no export,
\* no table change, and no failure.
C7_NoopOnAbsence ==
  describe_closure_id(pre.funcs) = None =>
    /\ Snapshot = pre
    /\ Hits = {}
    /\ element_removal_list = {}
    /\ scanQueue = <<>>
    /\ find = None
    /\ pc \in {"idle", "check", "done"}

C7_Witness ==
  /\ pc = "done"
  /\ describe_closure_id(funcs) = None
  /\ table # None
  /\ \E f \in LocalIds(funcs) : CallsTo(funcs, f, PlaceholderId) # {}

\* C8: a recorded function holds exactly one call of the placeholder and
\* that call is the one recorded; the scan never gets past a function that
\* holds two or more such calls, at any depth, and records none of them; a
\* function without such a call has no entry, and once the scan is over
\* the entries are the functions with exactly one call.
C8_OneCallPerFunction ==
  /\ \A f \in Hits :
       PlaceholderCalls(pre.funcs, f) = {func_to_descriptor[f].call}
  /\ find # None =>
       PlaceholderCalls(pre.funcs, find[1].func) = {find[1].call}
  /\ \A f \in LocalIds(pre.funcs) :
       (Cardinality(PlaceholderCalls(pre.funcs, f)) >= 2 /\ pc # "idle")
         => /\ f \notin Hits
            /\ f \in Range(scanQueue)
            /\ pc \in {"scan", "interpret", "panicked"}
  /\ pc \in {"check", "delete", "inject", "done"} =>
       Hits = {f \in LocalIds(pre.funcs) :
                 Cardinality(PlaceholderCalls(pre.funcs, f)) = 1}

C8_Witness ==
  /\ pc = "panicked"
  /\ find = None
  /\ Hits # {}
  /\ scanQueue # <<>>
  /\ \E e1 \in PlaceholderCalls(funcs, Head(scanQueue)) :
       \E e2 \in PlaceholderCalls(funcs, Head(scanQueue)) :
         e2 \in Range(funcs[Head(scanQueue)].body[e1].args)


(***************************************************************************)
(* Properties of the shim at run time (ShimSpec).                          *)
(***************************************************************************)
\* C9: with an FnMut shim, an invocation that starts while another is in
\* progress passes a == 0 to the invoker, which throws, so at most one
\* closure body runs at a time; when no invocation is in progress and the
\* closure has not been dropped, this.a is the original environment word,
\* and an invocation that starts then passes it.
C9_FnMutNonReentrant ==
  flavor = "FnMut" =>
    /\ \A k \in DOMAIN calls : calls[k].nested => calls[k].a = 0
    /\ stack # <<>> => cb.a = 0
    /\ Len(stack) <= 1
    /\ (stack = <<>> /\ handle = "live") => cb.a = env.a
    /\ \A k \in DOMAIN calls :
         (~calls[k].nested /\ ~calls[k].dropped) => calls[k].a = env.a

C9_Witness ==
  /\ flavor = "FnMut"
  /\ handle = "live"
  /\ stack # <<>>
  /\ Len(calls) >= 3
  /\ ~calls[1].nested /\ calls[1].a = env.a
  /\ calls[2].nested /\ calls[2].a = 0
  /\ ~calls[3].nested /\ calls[3].a = env.a

\* C10: with an FnOnce shim, the first invocation (of a closure not yet
\* dropped) passes the original a; from then on this.a is 0 and stays 0,
\* so every later or nested invocation passes a == 0; the shim never calls
\* the destructor d.
C10_FnOnceOneShot ==
  flavor = "FnOnce" =>
    /\ \A k \in DOMAIN calls :
         /\ (k = 1 /\ ~calls[k].dropped) => calls[k].a = env.a
         /\ k > 1 => calls[k].a = 0
         /\ calls[k].nested => calls[k].a = 0
    /\ calls # <<>> => cb.a = 0
    /\ cb.a \in {0, env.a}
    /\ dtors = <<>>
    /\ \A i \in DOMAIN frees : frees[i] # "destroy"

C10_Witness ==
  /\ flavor = "FnOnce"
  /\ Len(calls) >= 3
  /\ calls[1].a = env.a
  /\ calls[2].nested
  /\ ~calls[3].nested
  /\ stack = <<>>
  /\ cb.a = 0

\* C11: with an Fn shim neither the prelude nor the finally block writes
\* this.a: this.a is the original environment word until the drop of the
\* Closure zeroes it, so every invocation of a closure not yet dropped, and
\* every invocation that starts while another is in progress, at any depth,
\* passes the original a to the invoker.
C11_FnReentrant ==
  flavor = "Fn" =>
    /\ \A j \in DOMAIN shim[1].prelude : shim[1].prelude[j] # "this.a = 0;"
    /\ \A j \in DOMAIN shim[1].finally : shim[1].finally[j] # "this.a = a;"
    /\ handle = "live" => cb.a = env.a
    /\ cb.a \in {0, env.a}
    /\ \A k \in DOMAIN calls :
         (~calls[k].dropped \/ calls[k].nested) => calls[k].a = env.a
    /\ \A i \in DOMAIN stack : stack[i] = env.a

C11_Witness ==
  /\ flavor = "Fn"
  /\ handle = "live"
  /\ Len(stack) >= 3
  /\ Len(calls) >= 3
  /\ ~calls[1].nested /\ calls[1].a = env.a
  /\ calls[2].nested /\ calls[2].a = env.a
  /\ calls[3].nested /\ calls[3].a = env.a

\* the Closure was dropped while at least one invocation was in progress
DroppedDuringCall == dropDepth # None /\ dropDepth[1] > 0

\* C12: with an Fn or FnMut shim, a drop of the Closure while invocations
\* are in progress frees nothing and calls no destructor; from then on the
\* first call of the destructor is made by the step in which the outermost
\* invocation in progress returns (no inner return makes it), with the
\* original (a, b), and it frees the environment; a drop while no
\* invocation is in progress frees the environment at once.
C12_DeferredDestruction ==
  [][(flavor \in {"Fn", "FnMut"} =>
       /\ handle' = "live" => (frees' = <<>> /\ dtors' = <<>>)
       /\ (handle = "live" /\ handle' = "dropped" /\ stack # <<>>) =>
            (frees' = <<>> /\ dtors' = <<>> /\ cb'.cnt = Len(stack))
       /\ (handle = "live" /\ handle' = "dropped" /\ stack = <<>>) =>
            (frees' = <<"drop">> /\ dtors' = <<>>)
       /\ (DroppedDuringCall /\ dtors = <<>>) =>
            /\ dtors' # <<>> <=> (stack # <<>> /\ stack' = <<>>)
            /\ dtors' # <<>> => (dtors' = <<env.a>> /\ frees' = <<"destroy">>)
            /\ dtors' = <<>> => frees' = <<>>)]_vars

C12_Witness ==
  /\ flavor = "Fn"
  /\ dropDepth = Some(2)
  /\ stack = <<>>
  /\ dtors = <<env.a>>
  /\ frees = <<"destroy">>
  /\ Len(calls) = 2

\* C13: every invocation made after the Closure was dropped, whether it
\* was dropped outside or during an invocation, passes a == 0 to the
\* invoker (which raises); no invocation made after the environment was
\* freed passes the original non-zero environment word.
C13_UseAfterDropRaises ==
  \A k \in DOMAIN calls :
    /\ calls[k].dropped => calls[k].a = 0
    /\ calls[k].freed => calls[k].a = 0

\* C14: the step in which an FnMut invocation returns either restores
\* this.a to the captured word or calls the destructor, never both: after
\* a return that called the destructor this.a is not the non-zero
\* environment word.
C14_RestoreXorDestroy ==
  [][(flavor = "FnMut" /\ Len(stack') < Len(stack)) =>
       /\ (dtors' # dtors) # (cb'.a = stack[Len(stack)] /\ cb'.a # cb.a)
       /\ dtors' # dtors => cb'.a = 0]_vars

\* C19: with an Fn or FnMut shim, over invocations and one drop, the
\* environment is freed at most once in total, by the drop or by the
\* destructor, and the destructor is never called with a == 0.
C19_SingleValidDestruction ==
  flavor \in {"Fn", "FnMut"} =>
    /\ Len(frees) <= 1
    /\ Len(dtors) <= 1
    /\ \A i \in DOMAIN dtors : dtors[i] # 0

\* the run failed while interpreting or decoding the hit held in find
FailedInNew == pc = "panicked" /\ find # None

\* C15: when the interpretation of a hit fails, or its word stream fails
\* to decode, rewrite fails and the module is exactly what it was when
\* rewrite was entered: no shim exported, no import added, no call
\* retargeted, no table slot cleared, also when earlier hits of the same
\* scan were decoded.
C15_FailureBeforeMutation ==
  FailedInNew =>
    /\ Snapshot = pre
    /\ NewFuncs = {}
    /\ NewExports = {}
    /\ \A f \in Hits : ~Spliced(f)
    /\ \A f \in LocalIds(funcs) : funcs[f].body = pre.funcs[f].body
    /\ table # None =>
         \A idx \in element_removal_list :
           idx \in DOMAIN table[1] => table[1][idx] # None
    /\ find[1].func \notin Hits

C15_Witness ==
  /\ FailedInNew
  /\ Hits # {}
  /\ table # None
  /\ Cardinality(element_removal_list) = 2
  /\ find[1].func = SiteId(2)

\* the local functions the loop of new has finished with
Visited == LocalIds(funcs) \ Range(scanQueue)

\* C16, as stated: the scanner has visited every local function before the
\* descriptor interpreter is run for any hit.
C16_ScanCompletesFirst ==
  /\ pc = "interpret" => Len(scanQueue) <= 1
  /\ (pc = "scan" /\ Hits # {}) => scanQueue = <<>>

\* C16, amended: new visits the local functions in order; the scan of one
\* function is complete before the interpreter is run for that function's
\* hit, and the hit is interpreted and decoded before the next function is
\* scanned; the scan itself interprets nothing, and neither the scan nor
\* the interpretation changes the module; when new returns, the mapping
\* holds exactly the functions that call the placeholder.
C16_ScanThenInterpretPerFunction ==
  /\ pc \in {"scan", "interpret", "check"} =>
       /\ Snapshot = pre
       /\ \E k \in 0..Len(iter_local(funcs)) :
            scanQueue = SubSeq(iter_local(funcs), k + 1, Len(iter_local(funcs)))
       /\ \A f \in Visited : f \in Hits <=> PlaceholderCalls(funcs, f) # {}
       /\ Hits \subseteq Visited
       /\ Cardinality(element_removal_list) <= Cardinality(Hits)
  /\ pc = "interpret" =>
       /\ find # None
       /\ find[1].func = Head(scanQueue)
       /\ find[1].call \in PlaceholderCalls(funcs, find[1].func)
  /\ pc \in {"scan", "check"} => find = None
  /\ pc = "check" => scanQueue = <<>>

C16_Witness ==
  /\ pc = "interpret"
  /\ Len(scanQueue) > 1
  /\ Hits = {SiteId(1)}
  /\ find[1].func = SiteId(2)

\* C17: the id the scanner records for a function is the id of the call
\* expression whose target is the placeholder, not the id of an enclosing
\* block or call, of a sibling or of one of its arguments; the cursor is
\* saved before and restored after every descent, so the visit of any
\* expression of the function leaves the cursor as it found it.
C17_CursorExact ==
  find # None =>
    LET body == funcs[find[1].func].body
        dc == describe_closure_id(funcs)[1]
        e == body[find[1].call]
    IN /\ find[1].call \in DOMAIN body
       /\ e.op = "call"
       /\ e.func = dc
       /\ \A id \in Range(e.args) : body[id].op = "call" => body[id].func # dc
       /\ FindDescribeClosure(funcs[find[1].func], dc).call = Some(find[1].call)
       /\ \A id \in DOMAIN body : \A c \in DOMAIN body :
            visit_expr_id(body, dc,
                          [cur |-> c, call |-> None, failed |-> FALSE], id).cur = c

\* a hit nested in a block and passed to another call, and a hit whose own
\* first argument is a call, both recorded in one scan
C17_Witness ==
  /\ pc = "interpret"
  /\ find[1].func = SiteId(2)
  /\ funcs[SiteId(2)].body = ArgCallBody(DescSlot(2))
  /\ find[1].call = 5
  /\ SiteId(1) \in Hits
  /\ funcs[SiteId(1)].body = NestedBody(DescSlot(1))
  /\ func_to_descriptor[SiteId(1)].call = 5

\* the table slot named by the third argument of hit f's describe call
DescriptorSlot(f) ==
  pre.funcs[f].body[pre.funcs[f].body[func_to_descriptor[f].call].args[3]].val

\* C18: after a successful rewrite, for every hit the table slots at the
\* decoded shim_idx and dtor_idx are not in the removal set and hold the
\* function references they held before; the slots the run has changed
\* are exactly the slots of the hits' descriptor functions, now empty, and
\* every exported shim reads its invoker and destructor from occupied
\* slots.
C18_ReferencedSlotsSurvive ==
  (Succeeded /\ table # None /\ Hits # {}) =>
    /\ \A f \in Hits :
         LET c == func_to_descriptor[f].descriptor.closure
         IN /\ c.shim_idx \notin element_removal_list
            /\ c.dtor_idx \notin element_removal_list
            /\ table[1][c.shim_idx] # None
            /\ table[1][c.dtor_idx] # None
            /\ table[1][c.shim_idx] = pre.table[1][c.shim_idx]
            /\ table[1][c.dtor_idx] = pre.table[1][c.dtor_idx]
    /\ {i \in DOMAIN table[1] : table[1][i] # pre.table[1][i]}
         = {DescriptorSlot(f) : f \in Hits}
    /\ element_removal_list = {DescriptorSlot(f) : f \in Hits}
    /\ \A i \in element_removal_list : table[1][i] = None
    /\ \A k \in (DOMAIN exports) \ (DOMAIN pre.exports) :
         /\ table[1][exports[k].body.f] # None
         /\ table[1][exports[k].body.d] # None

C18_Witness ==
  /\ Succeeded
  /\ table # None
  /\ Cardinality(Hits) = 2
  /\ element_removal_list = {DescSlot(1), DescSlot(2)}
  /\ table[1][ShimSlot] = Some(InvokeFnId)
  /\ table[1][DtorSlot] = Some(DestroyFnId)
  /\ table[1][DescSlot(1)] = None

====
